---- MODULE Spec2Model ----
(***************************************************************************)
(* Model of the bitbucket-cli core: the Bitbucket REST client              *)
(* (src/src/client.rs) and the `pr` command with its reviewer resolution   *)
(* (src/src/main.rs).  One CLI run performs one operation and exits, so    *)
(* every behaviour is: an initial state (configuration loaded, client      *)
(* constructed), then one operation, then nothing.                         *)
(***************************************************************************)
EXTENDS Integers, Sequences, FiniteSets, TLC

VARIABLES
    config,        \* the loaded Config (read-only)
    client,        \* the constructed Bitbucket client (read-only)
    pc,            \* "ready" before the operation, "done" after it
    op,            \* the operation that ran
    args,          \* the inputs the operation was called with
    pull_request,  \* the PullRequest handed to create_pull_request
    transport,     \* what the HTTP transport answered (when it was asked)
    requests,      \* the HTTP requests issued, in order
    result,        \* the Result the operation returned
    reviewers,     \* pr: the computed reviewer set
    stdout,        \* lines printed to standard output (tags)
    stderr,        \* messages printed to standard error
    exit_code,     \* main: the process exit status (-1: still running)
    browser        \* URLs handed to the browser-launch collaborator

vars == <<config, client, pc, op, args, pull_request, transport, requests,
          result, reviewers, stdout, stderr, exit_code, browser>>

(***************************************************************************)
(* Bounds                                                                  *)
(***************************************************************************)
MaxStrLen == 3         \* longest role string
MaxFilterLen == 1      \* longest user filter string
MaxReviewerArgs == 2   \* most values of --reviewer
MaxGroupArgs == 2      \* most values of --group
MaxAppendArgs == 1     \* most values of --append

(***************************************************************************)
(* Strings are sequences of one-character strings where their encoding     *)
(* matters (query values); elsewhere they are opaque tokens.               *)
(***************************************************************************)
StrChars == {"A", "L", "&", "=", " "}

SeqsUpTo(S, n) == UNION { [1..k -> S] : k \in 0..n }

NonEmptySeqsUpTo(S, n) == UNION { [1..k -> S] : k \in 1..n }

Roles == SeqsUpTo(StrChars, MaxStrLen)

Filters == SeqsUpTo(StrChars, MaxFilterLen)

ALL == <<"A", "L", "L">>

Range(s) == { s[i] : i \in 1..Len(s) }

RECURSIVE Concat(_)
Concat(ss) == IF ss = <<>> THEN <<>> ELSE Head(ss) \o Concat(Tail(ss))

(***************************************************************************)
(* Option and Result values                                                *)
(***************************************************************************)
None == [some |-> FALSE, val |-> ""]

Some(v) == [some |-> TRUE, val |-> v]

NoArgs == [some |-> FALSE, vals |-> <<>>]

SomeArgs(vs) == [some |-> TRUE, vals |-> vs]

NoBody == [wellformed |-> FALSE, self |-> "absent"]

NoResult == [ok |-> FALSE, err |-> "NotRun", msg |-> "", flag |-> FALSE,
             url |-> "", body |-> NoBody]

Ok == [ok |-> TRUE, err |-> "None", msg |-> "", flag |-> FALSE,
       url |-> "", body |-> NoBody]

Err(kind) == [NoResult EXCEPT !.err = kind]

(***************************************************************************)
(* hyper / url collaborators                                               *)
(***************************************************************************)
\* Url::parse on the texts the model uses: an absolute URL is returned in
\* its normalised form, anything else is a parse error.
UrlParse(text) ==
    CASE text = "http://bb/pr/1"  -> Some("http://bb/pr/1")
      [] text = "HTTP://BB/pr/1"  -> Some("http://bb/pr/1")
      [] text = "http://bb/"      -> Some("http://bb/")
      [] text = "mailto:bb"       -> Some("mailto:bb")
      [] OTHER                    -> None

\* A URL that cannot be a base ("mailto:bb") refuses every join.
CannotBeABase(url) == url = "mailto:bb"

\* Url::join of a relative path (a sequence of segments).
UrlJoin(base, component) ==
    IF CannotBeABase(base)
    THEN [some |-> FALSE, base |-> base, path |-> <<>>, query |-> <<>>]
    ELSE [some |-> TRUE, base |-> base, path |-> component, query |-> <<>>]

\* form_urlencoded::byte_serialize, one character at a time.
EncodeChar(c) ==
    CASE c = " " -> <<"+">>
      [] c = "&" -> <<"%", "2", "6">>
      [] c = "=" -> <<"%", "3", "D">>
      [] c = "%" -> <<"%", "2", "5">>
      [] c = "+" -> <<"%", "2", "B">>
      [] OTHER   -> <<c>>

Encode(s) == Concat([i \in 1..Len(s) |-> EncodeChar(s[i])])

\* url.query_pairs_mut().append_pair(name, value)
AppendPair(url, name, value) ==
    [url EXCEPT !.query =
        (IF @ = <<>> THEN <<>> ELSE @ \o <<"&">>)
            \o Encode(name) \o <<"=">> \o Encode(value)]

\* StatusCode::is_success: the 2xx class.
IsSuccess(status) == status >= 200 /\ status <= 299

Statuses == {200, 204, 404}

SelfLinks == {"absent", "http://bb/pr/1", "HTTP://BB/pr/1", "not a url"}

\* A response body: whether it decodes as JSON of the expected shape, and
\* the text of its links.self[0].href ("absent" when there is none).
Bodies == {[wellformed |-> FALSE, self |-> "http://bb/pr/1"]}
          \cup [wellformed : {TRUE}, self : SelfLinks]

NoTransport == [kind |-> "none", status |-> 0, body |-> NoBody]

\* What send() and read_to_string() can produce.
TransportOutcomes ==
    { [kind |-> "send_error", status |-> 0, body |-> NoBody] }
    \cup { [kind |-> "read_error", status |-> s, body |-> NoBody] : s \in Statuses }
    \cup { [kind |-> "response", status |-> s, body |-> b] :
             s \in Statuses, b \in Bodies }

(***************************************************************************)
(* PullRequest model (pull_request.rs), after the specification of the     *)
(* data model: title, description, fromRef, toRef, reviewers               *)
(***************************************************************************)
NoRef == [set |-> FALSE, branch |-> "", slug |-> "", project |-> ""]

Ref(branch, slug_, project_) ==
    [set |-> TRUE, branch |-> branch, slug |-> slug_, project |-> project_]

NoPullRequest ==
    [title |-> "", description |-> "", fromRef |-> NoRef, toRef |-> NoRef,
     reviewers |-> {}]

\* PullRequest::new(title)
NewPullRequest(title) == [NoPullRequest EXCEPT !.title = title]

\* PullRequest::project(): the target project key, no value without a toRef.
project(pr) == IF pr.toRef.set THEN Some(pr.toRef.project) ELSE None

\* PullRequest::slug(): the target repository slug, no value without a toRef.
slug(pr) == IF pr.toRef.set THEN Some(pr.toRef.slug) ELSE None

\* PullRequest::self_link() of a decoded response: links.self[0].href.
self_link(data) == IF data.self = "absent" THEN None ELSE Some(data.self)

\* serde_json::from_str of a response body.
FromStr(body) == IF body.wellformed THEN [ok |-> TRUE, data |-> body]
                 ELSE [ok |-> FALSE, data |-> NoBody]

(***************************************************************************)
(* Bitbucket client (client.rs)                                            *)
(***************************************************************************)
\* Bitbucket::new
New(auth, base_url) ==
    LET url == UrlParse(base_url) IN
    IF url.some
    THEN [ok |-> TRUE,
          headers |-> [authorization |-> <<"Basic", auth>>,
                       content_type |-> "application/json; charset=utf-8"],
          base_url |-> url.val]
    ELSE [ok |-> FALSE,
          headers |-> [authorization |-> <<"Basic", auth>>,
                       content_type |-> "application/json; charset=utf-8"],
          base_url |-> ""]

Request(c, method, url, body) ==
    [method |-> method, url |-> url, headers |-> c.headers, body |-> body]

\* What an operation leaves behind: its Result, the requests it issued,
\* the lines it printed and the transport outcome it consumed.
Outcome(res, reqs, out, t) ==
    [result |-> res, requests |-> reqs, stdout |-> out, transport |-> t]

\* `if debug { println!(..) }`
DebugPrint(debug, line) == IF debug THEN <<line>> ELSE <<>>

\* The tail shared by list_pull_requests and user: a success status decodes
\* the body, any other status is a RequestError carrying the body read.
RequestErrorDropsBody(response_body) == Err("RequestError")

RequestErrorOf(response_body) ==
    [Err("RequestError") EXCEPT !.body = response_body]

DecodeResponse(t, debug) ==
    IF IsSuccess(t.status)
    THEN [out |-> DebugPrint(debug, "response_body"),
          result |-> IF FromStr(t.body).ok
                     THEN [Ok EXCEPT !.body = FromStr(t.body).data]
                     ELSE Err("Json")]
    ELSE [out |-> <<>>, result |-> RequestErrorOf(t.body)]

GetSelfUrlLenient(data) ==
    IF self_link(data).some
    THEN IF UrlParse(self_link(data).val).some
         THEN [Ok EXCEPT !.url = UrlParse(self_link(data).val).val]
         ELSE Err("UrlParse")
    ELSE Ok

\* get_self_url
get_self_url(data) ==
    IF self_link(data).some
    THEN IF UrlParse(self_link(data).val).some
         THEN [Ok EXCEPT !.url = UrlParse(self_link(data).val).val]
         ELSE Err("UrlParse")
    ELSE Err("MissingSelfLink")

BranchExistsChecksBody(t) ==
    [Ok EXCEPT !.flag = IsSuccess(t.status) /\ t.body.wellformed]

\* Bitbucket::branch_exists, from the response on.
BranchExistsResult(t) == [Ok EXCEPT !.flag = IsSuccess(t.status)]

\* Bitbucket::branch_exists(project, branch, debug); t is what the transport
\* answers when asked.
branch_exists(c, proj, branch, debug, t) ==
    LET component == <<"rest", "api", "1.0", "projects", proj.target_project,
                       "repos", proj.target_slug, "commits">>
        joined == UrlJoin(c.base_url, component)
        url == AppendPair(AppendPair(joined, <<"u","n","t","i","l">>, branch),
                          <<"l","i","m","i","t">>, <<"1">>)
        req == Request(c, "GET", url, NoPullRequest)
    IN  IF ~joined.some THEN Outcome(Err("UrlParse"), <<>>, <<>>, NoTransport)
        ELSE IF t.kind # "response"
        THEN Outcome(Err("Io"), <<req>>, <<>>, t)
        ELSE Outcome(BranchExistsResult(t), <<req>>,
                     DebugPrint(debug, "response_body"), t)

RoleQueryAlways(url, role) == AppendPair(url, <<"r","o","l","e">>, role)

\* The role filter of list_pull_requests: "ALL" is sent by leaving the
\* parameter out.
RoleQuery(url, role) ==
    IF role # ALL THEN AppendPair(url, <<"r","o","l","e">>, role) ELSE url

\* Bitbucket::list_pull_requests(debug, role)
list_pull_requests(c, debug, role, t) ==
    LET joined == UrlJoin(c.base_url,
                          <<"rest", "api", "1.0", "dashboard", "pull-requests">>)
        url == RoleQuery(AppendPair(joined, <<"s","t","a","t","e">>,
                                    <<"O","P","E","N">>), role)
        req == Request(c, "GET", url, NoPullRequest)
        dec == DecodeResponse(t, debug)
    IN  IF ~joined.some THEN Outcome(Err("UrlParse"), <<>>, <<>>, NoTransport)
        ELSE IF t.kind # "response"
        THEN Outcome(Err("Io"), <<req>>, DebugPrint(debug, "url"), t)
        ELSE Outcome(dec.result, <<req>>,
                     DebugPrint(debug, "url") \o dec.out, t)

\* Bitbucket::user(filter, debug)
user(c, filter, debug, t) ==
    LET joined == UrlJoin(c.base_url, <<"rest", "api", "1.0", "users">>)
        url == AppendPair(joined, <<"f","i","l","t","e","r">>, filter)
        req == Request(c, "GET", url, NoPullRequest)
        dec == DecodeResponse(t, debug)
    IN  IF ~joined.some THEN Outcome(Err("UrlParse"), <<>>, <<>>, NoTransport)
        ELSE IF t.kind # "response"
        THEN Outcome(Err("Io"), <<req>>, DebugPrint(debug, "url"), t)
        ELSE Outcome(dec.result, <<req>>,
                     DebugPrint(debug, "url") \o dec.out, t)

TargetComponentUnchecked(pr) ==
    [ok |-> TRUE,
     path |-> <<"rest", "api", "1.0", "projects", project(pr).val,
                "repos", slug(pr).val, "pull-requests">>]

\* create_pull_request: the path of the request, which needs the target
\* project and the target slug.
TargetComponent(pr) ==
    IF ~project(pr).some \/ ~slug(pr).some
    THEN [ok |-> FALSE, path |-> <<>>]
    ELSE [ok |-> TRUE,
          path |-> <<"rest", "api", "1.0", "projects", project(pr).val,
                     "repos", slug(pr).val, "pull-requests">>]

DryNeverAborts(dry) == FALSE

\* create_pull_request: `if dry { ...; return Err(DryRun) }`
DryAbort(dry) == dry

\* create_pull_request, from the response on.
CreateResponse(t, debug) ==
    IF IsSuccess(t.status)
    THEN [out |-> DebugPrint(debug, "response_body"),
          result |-> IF FromStr(t.body).ok
                     THEN get_self_url(FromStr(t.body).data)
                     ELSE Err("Json")]
    ELSE [out |-> <<>>, result |-> RequestErrorOf(t.body)]

\* Bitbucket::create_pull_request(pull_request, dry, debug), up to the
\* point where the request is about to be sent: either it has returned
\* (done) or the request is ready.
CreatePrepare(c, pr, dry, debug) ==
    LET component == TargetComponent(pr)
        joined == UrlJoin(c.base_url, component.path)
        req == Request(c, "POST", joined, pr)
    IN  IF ~component.ok
        THEN [done |-> TRUE, req |-> req, out |-> <<>>,
              result |-> [Err("InvalidPullRequest") EXCEPT !.msg = "Missing toRef"]]
        ELSE IF ~joined.some
        THEN [done |-> TRUE, req |-> req, out |-> <<>>,
              result |-> Err("UrlParse")]
        ELSE IF DryAbort(dry)
        THEN [done |-> TRUE, req |-> req,
              out |-> DebugPrint(debug, "body") \o <<"Dry run">>,
              result |-> Err("DryRun")]
        ELSE [done |-> FALSE, req |-> req,
              out |-> DebugPrint(debug, "body"), result |-> NoResult]

\* Bitbucket::create_pull_request(pull_request, dry, debug)
create_pull_request(c, pr, dry, debug, t) ==
    LET prep == CreatePrepare(c, pr, dry, debug)
        resp == CreateResponse(t, debug)
    IN  IF prep.done
        THEN Outcome(prep.result, <<>>, prep.out, NoTransport)
        ELSE IF t.kind # "response"
        THEN Outcome(Err("Io"), <<prep.req>>, prep.out, t)
        ELSE Outcome(resp.result, <<prep.req>>, prep.out \o resp.out, t)

\* Whether create_pull_request gets as far as asking the transport.
CreateSends(c, pr, dry, debug) == ~CreatePrepare(c, pr, dry, debug).done

(***************************************************************************)
(* Configuration (config.rs), after the specification of the              *)
(* configuration collaborator                                              *)
(***************************************************************************)
Project == [target_project |-> "PROJ", target_slug |-> "repo",
            target_branch |-> "master", source_project |-> "~me",
            source_slug |-> "fork"]

GroupNames == {"default", "team", "ghost"}

WithDefault == [g \in {"default", "team"} |->
                   IF g = "default" THEN {"carol", "dave"} ELSE {"alice", "carol"}]

WithoutDefault == [g \in {"team"} |-> {"bob"}]

Servers == {"http://bb/", "mailto:bb", "bitbucket"}

Configs == [auth : {"dXNlcjpwdw=="}, server : Servers,
            groups : {WithDefault, WithoutDefault},
            open_in_browser : BOOLEAN, project : {Project}]

\* Config::get_group(name)
get_group(cfg, name) ==
    IF name \in DOMAIN cfg.groups
    THEN [ok |-> TRUE, err |-> "None", set |-> cfg.groups[name]]
    ELSE [ok |-> FALSE, err |-> "GroupNotFound", set |-> {}]

(***************************************************************************)
(* The pr command and main (main.rs)                                       *)
(***************************************************************************)
ReviewerNames == {"alice", "bob"}

AppendNames == {"carol", "erin"}

ReviewerArgs == {NoArgs} \cup
    { SomeArgs(vs) : vs \in NonEmptySeqsUpTo(ReviewerNames, MaxReviewerArgs) }

GroupArgs == {NoArgs} \cup
    { SomeArgs(vs) : vs \in NonEmptySeqsUpTo(GroupNames, MaxGroupArgs) }

AppendArgs == {NoArgs} \cup
    { SomeArgs(vs) : vs \in NonEmptySeqsUpTo(AppendNames, MaxAppendArgs) }

\* What the collaborators called before the reviewers are resolved answer:
\* the project lookup and the git branch detection can each fail.
Envs == {"ok", "no_project", "no_branch"}

NoCall == [subcommand |-> "", debug |-> FALSE, dry |-> FALSE, open |-> FALSE,
           reviewer |-> NoArgs, group |-> NoArgs, append |-> NoArgs,
           env |-> "ok", launch_ok |-> TRUE,
           role |-> <<>>, filter |-> <<>>, branch |-> <<>>]

RECURSIVE UnionGroupsSkipsUnknown(_, _, _)
UnionGroupsSkipsUnknown(cfg, names, acc) ==
    IF names = <<>> THEN [ok |-> TRUE, err |-> "None", set |-> acc]
    ELSE UnionGroupsSkipsUnknown(cfg, Tail(names),
                                 acc \cup get_group(cfg, Head(names)).set)

\* `for group in groups { reviewers = &reviewers | config.get_group(group)? }`
RECURSIVE UnionGroups(_, _, _)
UnionGroups(cfg, names, acc) ==
    IF names = <<>> THEN [ok |-> TRUE, err |-> "None", set |-> acc]
    ELSE IF ~get_group(cfg, Head(names)).ok
    THEN get_group(cfg, Head(names))
    ELSE UnionGroups(cfg, Tail(names), acc \cup get_group(cfg, Head(names)).set)

GroupReviewersNoDefault(cfg, group) ==
    IF group.some THEN UnionGroups(cfg, group.vals, {})
    ELSE [ok |-> TRUE, err |-> "None", set |-> {}]

\* pr: the groups the reviewers start from when no --reviewer is given.
GroupReviewers(cfg, group) ==
    IF group.some THEN UnionGroups(cfg, group.vals, {})
    ELSE UnionGroups(cfg, <<"default">>, {})

\* pr: the names of --append, added after the groups.
Appended(append) == IF append.some THEN Range(append.vals) ELSE {}

ResolveReviewersAppendsAlways(cfg, reviewer, group, append) ==
    IF reviewer.some
    THEN [ok |-> TRUE, err |-> "None",
          set |-> Range(reviewer.vals) \cup Appended(append)]
    ELSE IF ~GroupReviewers(cfg, group).ok
    THEN GroupReviewers(cfg, group)
    ELSE [ok |-> TRUE, err |-> "None",
          set |-> GroupReviewers(cfg, group).set \cup Appended(append)]

\* pr: the reviewer set, from --reviewer, --group and --append.
ResolveReviewers(cfg, reviewer, group, append) ==
    IF reviewer.some
    THEN [ok |-> TRUE, err |-> "None", set |-> Range(reviewer.vals)]
    ELSE IF ~GroupReviewers(cfg, group).ok
    THEN GroupReviewers(cfg, group)
    ELSE [ok |-> TRUE, err |-> "None",
          set |-> GroupReviewers(cfg, group).set \cup Appended(append)]

\* pr: the pull request as built before it is submitted.
BuildPullRequest(cfg, revs) ==
    [NewPullRequest("title") EXCEPT
        !.fromRef = Ref("feature", cfg.project.source_slug, cfg.project.source_project),
        !.toRef = Ref(cfg.project.target_branch, cfg.project.target_slug,
                      cfg.project.target_project),
        !.reviewers = revs]

\* pr: whether the created pull request is opened in the browser.
OpenRequested(cfg, a) == a.open \/ cfg.open_in_browser

PrOutcome(res, pr_, revs, created, launched) ==
    [result |-> res, pull_request |-> pr_, reviewers |-> revs,
     requests |-> created.requests, transport |-> created.transport,
     stdout |-> created.stdout, browser |-> launched]

NotCreated == Outcome(NoResult, <<>>, <<>>, NoTransport)

\* pr(config, client, matches); t is what the transport answers when asked.
pr(cfg, c, a, t) ==
    LET resolved == ResolveReviewers(cfg, a.reviewer, a.group, a.append)
        built == BuildPullRequest(cfg, resolved.set)
        created == create_pull_request(c, built, a.dry, a.debug, t)
        printed == [created EXCEPT !.stdout =
                       <<"computed reviewers">> \o @]
    IN  IF a.env = "no_project"
        THEN PrOutcome(Err("ProjectNotFound"), NoPullRequest, {}, NotCreated, <<>>)
        ELSE IF a.env = "no_branch"
        THEN PrOutcome(Err("Git"), NoPullRequest, {}, NotCreated, <<>>)
        ELSE IF ~resolved.ok
        THEN PrOutcome(Err(resolved.err),
                       BuildPullRequest(cfg, {}), {}, NotCreated, <<>>)
        ELSE IF ~created.result.ok
        THEN PrOutcome(created.result, built, resolved.set, printed, <<>>)
        ELSE IF OpenRequested(cfg, a)
        THEN PrOutcome(IF a.launch_ok THEN Ok ELSE Err("Browser"),
                       built, resolved.set,
                       [printed EXCEPT !.stdout =
                           @ \o <<"Created pull request", "Opening in browser...">>],
                       <<created.result.url>>)
        ELSE PrOutcome(Ok, built, resolved.set,
                       [printed EXCEPT !.stdout = @ \o <<"Created pull request">>],
                       <<>>)

\* Whether pr gets as far as asking the transport.
PrSends(cfg, c, a) ==
    /\ a.env = "ok"
    /\ ResolveReviewers(cfg, a.reviewer, a.group, a.append).ok
    /\ CreateSends(c, BuildPullRequest(cfg, {}), a.dry, a.debug)

\* Whether pr gets as far as launching the browser.
PrLaunches(cfg, c, a, t) ==
    /\ PrSends(cfg, c, a)
    /\ create_pull_request(c, BuildPullRequest(cfg, {}), a.dry, a.debug, t).result.ok
    /\ OpenRequested(cfg, a)

\* exit(message): a clap error of kind InvalidValue, which ends the process
\* with status 1.
exit(message) == [code |-> 1, stderr |-> <<message>>]

\* main: `match res { Err(why) => exit(..), Ok(_) => {} }`
ExitStatus(res) == IF res.ok THEN [code |-> 0, stderr |-> <<>>]
                   ELSE exit(res.err)

(***************************************************************************)
(* State machine                                                           *)
(***************************************************************************)
Init ==
    /\ config \in Configs
    /\ client = New(config.auth, config.server)
    /\ pc = "ready"
    /\ op = "none"
    /\ args = NoCall
    /\ pull_request = NoPullRequest
    /\ transport = NoTransport
    /\ requests = <<>>
    /\ result = NoResult
    /\ reviewers = {}
    /\ stdout = <<>>
    /\ stderr = <<>>
    /\ exit_code = -1
    /\ browser = <<>>

\* A call of a client operation by a library user: the process keeps
\* running and nothing is launched.
Returned(name, a, pr_, o) ==
    /\ pc' = "done"
    /\ op' = name
    /\ args' = a
    /\ pull_request' = pr_
    /\ transport' = o.transport
    /\ requests' = o.requests
    /\ result' = o.result
    /\ stdout' = o.stdout
    /\ UNCHANGED <<config, client, reviewers, stderr, exit_code, browser>>

Branches == {<<>>, <<"A">>, <<"A", " ", "L">>}

BranchExists ==
    /\ pc = "ready" /\ client.ok
    /\ \E branch \in Branches, debug \in BOOLEAN :
       \E t \in (IF UrlJoin(client.base_url, <<>>).some
                 THEN TransportOutcomes ELSE {NoTransport}) :
          /\ Returned("branch_exists",
                      [NoCall EXCEPT !.branch = branch, !.debug = debug],
                      NoPullRequest,
                      branch_exists(client, config.project, branch, debug, t))

PullRequests ==
    { [NewPullRequest("title") EXCEPT !.fromRef = f, !.toRef = r,
                                      !.reviewers = rs] :
        f \in {NoRef, Ref("feature", "fork", "~me")},
        r \in {NoRef, Ref("master", "repo", "PROJ")},
        rs \in {{}, {"alice"}} }

CreatePullRequest ==
    /\ pc = "ready" /\ client.ok
    /\ \E p \in PullRequests, dry \in BOOLEAN, debug \in BOOLEAN :
          \E t \in (IF CreateSends(client, p, dry, debug)
                    THEN TransportOutcomes ELSE {NoTransport}) :
             Returned("create_pull_request",
                      [NoCall EXCEPT !.dry = dry, !.debug = debug], p,
                      create_pull_request(client, p, dry, debug, t))

ListPullRequests ==
    /\ pc = "ready" /\ client.ok
    /\ \E role \in Roles, debug \in BOOLEAN :
          \E t \in (IF UrlJoin(client.base_url, <<>>).some
                    THEN TransportOutcomes ELSE {NoTransport}) :
             Returned("list_pull_requests",
                      [NoCall EXCEPT !.role = role, !.debug = debug],
                      NoPullRequest,
                      list_pull_requests(client, debug, role, t))

User ==
    /\ pc = "ready" /\ client.ok
    /\ \E filter \in Filters, debug \in BOOLEAN :
          \E t \in (IF UrlJoin(client.base_url, <<>>).some
                    THEN TransportOutcomes ELSE {NoTransport}) :
             Returned("user",
                      [NoCall EXCEPT !.filter = filter, !.debug = debug],
                      NoPullRequest,
                      user(client, filter, debug, t))

\* main with the pr subcommand, its command line drawn from the given
\* option values and the transport's answer from ts.
MainPrOver(reviewer_args, group_args, append_args, ts) ==
    /\ pc = "ready" /\ client.ok
    /\ \E debug \in BOOLEAN, dry \in BOOLEAN, open \in BOOLEAN,
          reviewer \in reviewer_args, group \in group_args,
          append \in append_args, env \in Envs :
          LET a0 == [NoCall EXCEPT !.subcommand = "pr", !.debug = debug,
                        !.dry = dry, !.open = open, !.reviewer = reviewer,
                        !.group = group, !.append = append, !.env = env]
          IN
          \E t \in (IF PrSends(config, client, a0)
                    THEN ts ELSE {NoTransport}) :
             \E launch_ok \in (IF PrLaunches(config, client, a0, t)
                               THEN BOOLEAN ELSE {TRUE}) :
                LET a == [a0 EXCEPT !.launch_ok = launch_ok]
                    o == pr(config, client, a, t)
                IN
                /\ pc' = "done"
                /\ op' = "pr"
                /\ args' = a
                /\ pull_request' = o.pull_request
                /\ transport' = o.transport
                /\ requests' = o.requests
                /\ result' = o.result
                /\ reviewers' = o.reviewers
                /\ stdout' = o.stdout
                /\ stderr' = ExitStatus(o.result).stderr
                /\ exit_code' = ExitStatus(o.result).code
                /\ browser' = o.browser
                /\ UNCHANGED <<config, client>>

\* Command lines with at most one value for each option.
OneReviewerArgs == {NoArgs} \cup
    { SomeArgs(vs) : vs \in NonEmptySeqsUpTo(ReviewerNames, 1) }

OneGroupArgs == {NoArgs} \cup
    { SomeArgs(vs) : vs \in NonEmptySeqsUpTo(GroupNames, 1) }

OneAppendArgs == {NoArgs} \cup
    { SomeArgs(vs) : vs \in NonEmptySeqsUpTo(AppendNames, 1) }

MainPr ==
    MainPrOver(OneReviewerArgs, OneGroupArgs, OneAppendArgs, TransportOutcomes)

\* The transport answers the reviewer resolution is explored with.
Created == [kind |-> "response", status |-> 200,
            body |-> [wellformed |-> TRUE, self |-> "http://bb/pr/1"]]

Rejected == [kind |-> "response", status |-> 404,
             body |-> [wellformed |-> TRUE, self |-> "absent"]]

MainPrResolve ==
    MainPrOver(ReviewerArgs, GroupArgs, AppendArgs, {Created, Rejected})

\* main with the groups subcommand.
MainGroups ==
    /\ pc = "ready" /\ client.ok
    /\ pc' = "done"
    /\ op' = "groups"
    /\ args' = [NoCall EXCEPT !.subcommand = "groups"]
    /\ result' = Ok
    /\ stdout' = <<"groups">>
    /\ stderr' = ExitStatus(Ok).stderr
    /\ exit_code' = ExitStatus(Ok).code
    /\ UNCHANGED <<config, client, pull_request, transport, requests,
                   reviewers, browser>>

\* main when the client cannot be constructed.
MainNoClient ==
    /\ pc = "ready" /\ ~client.ok
    /\ pc' = "done"
    /\ op' = "main"
    /\ result' = Err("Could not create client")
    /\ stderr' = exit("Could not create client").stderr
    /\ exit_code' = exit("Could not create client").code
    /\ UNCHANGED <<config, client, args, pull_request, transport, requests,
                   reviewers, stdout, browser>>

Next ==
    \/ BranchExists
    \/ CreatePullRequest
    \/ ListPullRequests
    \/ User
    \/ MainPr
    \/ MainGroups
    \/ MainNoClient

Spec == Init /\ [][Next]_vars

\* The pr command alone, over every command line within the bounds, against
\* a server that answers.
InitResolve == Init /\ config.server = "http://bb/" /\ ~config.open_in_browser

NextResolve == MainPrResolve

SpecResolve == InitResolve /\ [][NextResolve]_vars

(***************************************************************************)
(* Reading a request URL's query the way the server does                   *)
(* (application/x-www-form-urlencoded parsing)                             *)
(***************************************************************************)
RECURSIVE SplitOn(_, _)
SplitOn(s, sep) ==
    IF \A i \in 1..Len(s) : s[i] # sep THEN <<s>>
    ELSE LET i == CHOOSE k \in 1..Len(s) :
                     s[k] = sep /\ \A j \in 1..(k - 1) : s[j] # sep
         IN  <<SubSeq(s, 1, i - 1)>> \o SplitOn(SubSeq(s, i + 1, Len(s)), sep)

DecodeEscape(hi, lo) ==
    CASE hi = "2" /\ lo = "6" -> "&"
      [] hi = "3" /\ lo = "D" -> "="
      [] hi = "2" /\ lo = "5" -> "%"
      [] hi = "2" /\ lo = "B" -> "+"
      [] OTHER -> "?"

RECURSIVE Decode(_)
Decode(s) ==
    IF s = <<>> THEN <<>>
    ELSE IF Head(s) = "+" THEN <<" ">> \o Decode(Tail(s))
    ELSE IF Head(s) = "%" /\ Len(s) >= 3
    THEN <<DecodeEscape(s[2], s[3])>> \o Decode(SubSeq(s, 4, Len(s)))
    ELSE <<Head(s)>> \o Decode(Tail(s))

ParsePair(p) ==
    LET parts == SplitOn(p, "=")
        rest == SubSeq(p, Len(parts[1]) + 2, Len(p))
    IN  [name |-> Decode(parts[1]), value |-> Decode(rest)]

QueryPairs(q) ==
    IF q = <<>> THEN <<>>
    ELSE [i \in 1..Len(SplitOn(q, "&")) |-> ParsePair(SplitOn(q, "&")[i])]

\* The values the query gives the parameter `name`, in order.
ParamValues(q, name) ==
    LET ps == QueryPairs(q)
        F[i \in 0..Len(ps)] ==
            IF i = 0 THEN <<>>
            ELSE IF ps[i].name = name THEN F[i - 1] \o <<ps[i].value>>
            ELSE F[i - 1]
    IN  F[Len(ps)]

(***************************************************************************)
(* Claims                                                                  *)
(***************************************************************************)
CreateRan == pc = "done" /\ op = "create_pull_request"

PrRan == pc = "done" /\ op = "pr"

TargetMissing(p) == ~project(p).some \/ ~slug(p).some

GotResponse == transport.kind = "response"

SuccessStatus == transport.status \in 200..299

\* C1: a pull request without a target project or slug makes
\* create_pull_request fail with InvalidPullRequest without any request
\* being issued, whatever dry and debug are.
C1_MissingTargetIsInvalid ==
    (CreateRan /\ TargetMissing(pull_request))
        => /\ ~result.ok
           /\ result.err = "InvalidPullRequest"
           /\ requests = <<>>

C1_Witness ==
    /\ CreateRan /\ TargetMissing(pull_request)
    /\ args.dry /\ args.debug
    /\ result.err = "InvalidPullRequest"

\* C2 as claimed: every create_pull_request call with dry set issues no
\* request and fails with DryRun.
C2_DryAlwaysDryRun ==
    (CreateRan /\ args.dry) => (requests = <<>> /\ result.err = "DryRun")

\* C2 as amended: every create_pull_request call with dry set issues no
\* request and fails; the failure is DryRun whenever the target project and
\* slug are present and the request URL can be composed from the base URL.
C2_DryIssuesNothing ==
    (CreateRan /\ args.dry)
        => /\ requests = <<>>
           /\ ~result.ok
           /\ (~TargetMissing(pull_request) /\ ~CannotBeABase(client.base_url))
                 => result.err = "DryRun"

C2_Witness ==
    /\ CreateRan /\ args.dry /\ ~TargetMissing(pull_request)
    /\ result.err = "DryRun" /\ requests = <<>>
    /\ stdout = <<"Dry run">>

\* C3: when pr runs with the dry-run flag and create_pull_request returns
\* DryRun, the run ends cleanly: exit status 0, nothing reported as an
\* error, and the browser is not opened.
C3_DryRunExitsCleanly ==
    (PrRan /\ args.dry /\ result.err = "DryRun")
        => /\ exit_code = 0
           /\ stderr = <<>>
           /\ browser = <<>>

\* C4: with an explicit reviewer list the computed reviewer set is exactly
\* the names of the list, whatever --group and --append are; no group is
\* looked up.
C4_ExplicitReviewersWin ==
    (PrRan /\ args.env = "ok" /\ args.reviewer.some)
        => /\ reviewers = { args.reviewer.vals[i] :
                              i \in 1..Len(args.reviewer.vals) }
           /\ pull_request.reviewers = reviewers
           /\ result.err # "GroupNotFound"

C4_Witness ==
    /\ PrRan /\ args.reviewer = SomeArgs(<<"alice", "bob">>)
    /\ args.group = SomeArgs(<<"ghost", "team">>)
    /\ args.append = SomeArgs(<<"erin">>)
    /\ reviewers = {"alice", "bob"}
    /\ requests # <<>>

GroupsAsked == IF args.group.some
               THEN { args.group.vals[i] : i \in 1..Len(args.group.vals) }
               ELSE {"default"}

\* C5: without an explicit reviewer list the computed reviewer set is the
\* union of the members of every named group (of "default" when none is
\* named) and of the appended names, and nothing else.
C5_GroupsAndAppend ==
    (PrRan /\ args.env = "ok" /\ ~args.reviewer.some
           /\ GroupsAsked \subseteq DOMAIN config.groups)
        => /\ reviewers =
                UNION { config.groups[g] : g \in GroupsAsked }
                \cup (IF args.append.some
                      THEN { args.append.vals[i] :
                               i \in 1..Len(args.append.vals) }
                      ELSE {})
           /\ pull_request.reviewers = reviewers

C5_Witness ==
    /\ PrRan /\ ~args.reviewer.some /\ ~args.group.some
    /\ args.append = SomeArgs(<<"erin">>)
    /\ config.groups = WithDefault
    /\ reviewers = {"carol", "dave", "erin"}

UnknownGroupNamed ==
    /\ args.group.some
    /\ \E i \in 1..Len(args.group.vals) :
          args.group.vals[i] \notin DOMAIN config.groups

\* C6 as claimed: reviewer resolution with an unknown group name fails with
\* GroupNotFound and issues no request.
C6_UnknownGroupFails ==
    (PrRan /\ args.env = "ok" /\ UnknownGroupNamed)
        => (result.err = "GroupNotFound" /\ requests = <<>>)

\* C6 as amended: when no explicit reviewer list is given, reviewer
\* resolution with an unknown group name fails with GroupNotFound and issues
\* no request.
C6_UnknownGroupFailsWithoutReviewers ==
    (PrRan /\ args.env = "ok" /\ ~args.reviewer.some /\ UnknownGroupNamed)
        => /\ result.err = "GroupNotFound"
           /\ requests = <<>>
           /\ transport = NoTransport

C6_Witness ==
    /\ PrRan /\ ~args.reviewer.some
    /\ args.group = SomeArgs(<<"team", "ghost">>)
    /\ ~args.dry
    /\ result.err = "GroupNotFound" /\ requests = <<>>

\* C7: list_pull_requests always sends state=OPEN; with role "ALL" the
\* request URL has no role parameter, with any other role it has the role
\* parameter exactly once, with that role as its value.
C7_RoleParameter ==
    (pc = "done" /\ op = "list_pull_requests" /\ requests # <<>>)
        => /\ Len(requests) = 1
           /\ ParamValues(requests[1].url.query, <<"s","t","a","t","e">>)
                 = << <<"O","P","E","N">> >>
           /\ ParamValues(requests[1].url.query, <<"r","o","l","e">>)
                 = (IF args.role = <<"A","L","L">> THEN <<>> ELSE <<args.role>>)

C7_Witness ==
    /\ pc = "done" /\ op = "list_pull_requests"
    /\ args.role = <<"A", "&", "=">>
    /\ requests # <<>>
    /\ ParamValues(requests[1].url.query, <<"r","o","l","e">>) = <<args.role>>

\* C8: branch_exists returns true exactly when the response has a success
\* status and false for every other status, whatever the body is.
C8_BranchExistsIsStatus ==
    (pc = "done" /\ op = "branch_exists" /\ GotResponse)
        => /\ result.ok
           /\ result.flag = SuccessStatus

C8_Witness ==
    /\ pc = "done" /\ op = "branch_exists" /\ GotResponse
    /\ transport.status = 200 /\ ~transport.body.wellformed
    /\ result.ok /\ result.flag

\* C9: in create_pull_request, list_pull_requests and user every response
\* with a non-success status fails with RequestError carrying exactly the
\* body the transport supplied, and RequestError is produced for nothing
\* else.
C9_RequestErrorKeepsBody ==
    (pc = "done" /\ op \in {"create_pull_request", "list_pull_requests", "user"})
        => /\ (GotResponse /\ ~SuccessStatus)
                 => (~result.ok /\ result.err = "RequestError"
                       /\ result.body = transport.body)
           /\ result.err = "RequestError" => (GotResponse /\ ~SuccessStatus)

C9_Witness ==
    /\ pc = "done" /\ op = "user" /\ GotResponse
    /\ transport.status = 404 /\ transport.body.wellformed
    /\ result.err = "RequestError" /\ result.body = transport.body

Decoded == GotResponse /\ SuccessStatus /\ transport.body.wellformed

\* Two texts that name the same URL.
SameUrl(a, b) == UrlParse(a).some /\ UrlParse(a) = UrlParse(b)

\* C10 as claimed: on a success response create_pull_request returns the
\* self link of the decoded response when there is one and fails with
\* MissingSelfLink when there is none; pr prints the created URL and launches
\* the browser only after that success and only when opening was requested.
C10_SelfLinkReturned ==
    /\ (CreateRan /\ Decoded)
          => IF transport.body.self # "absent"
             THEN result.ok /\ SameUrl(result.url, transport.body.self)
             ELSE result.err = "MissingSelfLink"
    /\ (PrRan /\ browser # <<>>)
          => (Decoded /\ OpenRequested(config, args))

\* C10 as amended: on a success response create_pull_request returns the URL
\* parsed from the self link of the decoded response when there is one and it
\* parses, fails with a URL parse error when it does not parse, and fails with
\* MissingSelfLink when there is none; pr prints the created URL and launches
\* the browser, with that URL, only after that success and only when opening
\* was requested.
C10_SelfLinkParsed ==
    /\ (CreateRan /\ Decoded)
          => CASE transport.body.self = "absent" ->
                    result.err = "MissingSelfLink"
               [] transport.body.self \in {"http://bb/pr/1", "HTTP://BB/pr/1"} ->
                    result.ok /\ result.url = "http://bb/pr/1"
               [] OTHER -> result.err = "UrlParse"
    /\ (CreateRan /\ result.ok) => (Decoded /\ transport.body.self # "absent")
    /\ (PrRan /\ (browser # <<>> \/ \E i \in 1..Len(stdout) :
                                       stdout[i] = "Created pull request"))
          => /\ Decoded
             /\ transport.body.self \in {"http://bb/pr/1", "HTTP://BB/pr/1"}
    /\ (PrRan /\ browser # <<>>)
          => /\ OpenRequested(config, args)
             /\ browser = <<"http://bb/pr/1">>

C10_Witness ==
    /\ PrRan /\ args.open /\ ~config.open_in_browser
    /\ transport.body.self = "HTTP://BB/pr/1"
    /\ browser = <<"http://bb/pr/1">>
    /\ result.ok

====
